---- MODULE Spec2Model ----
(***************************************************************************)
(* The column layer of sqlbuilder (column.go): typed columns, alias        *)
(* columns and deferred lookup columns, and their serialization into a     *)
(* caller-supplied bytes.Buffer.                                           *)
(*                                                                         *)
(* A Go string is a sequence of one-character strings (<<"i","d">> is      *)
(* "id").  The literal pieces of an error's format string are kept as one  *)
(* element each.  A nil error is the empty sequence NoErr.                 *)
(***************************************************************************)
EXTENDS Integers, Sequences, FiniteSets, TLC

\* The fields of the records of this module.  TLC keeps the fields of a record
\* in the order in which it first met their names, and every record below is
\* written in that order.
RecordFields ==
    [op |-> 0, kind |-> 0, name |-> 0, nullable |-> 0, pc |-> 0, sawNil |-> 0,
     panic |-> 0, col |-> 0, out |-> 0, text |-> 0, expression |-> 0,
     includeTableName |-> 0, tableArg |-> 0, err |-> 0, buf |-> 0,
     deferred |-> 0, table |-> 0, charset |-> 0, collation |-> 0, typ |-> 0,
     ptr |-> 0, columnLookup |-> 0, calls |-> 0, hits |-> 0, colName |-> 0,
     cachedColumn |-> 0]

VARIABLES
    cols,       \* the heap of typed columns: ColIds -> baseColumn fields, or NoCol
    alias,      \* the *aliasColumn under test, or NoAlias before Alias() is called
    deferred,   \* the *deferredLookupColumn under test: colName, cachedColumn
    table,      \* the *Table it is bound to: columnLookup, and the lookups it served
    dialect,    \* d.EscapeCharacter() of the Dialect the caller passes
    out,        \* the caller's bytes.Buffer
    ret,        \* the last call made and what it returned
    panicked,   \* the panic message once a constructor has panicked, else ""
    threads     \* the goroutines of the concurrent specification

vars == <<cols, alias, deferred, table, dialect, out, ret, panicked, threads>>

\* ------------------------------------------------------------------ bounds

\* Longest name handed to a typed-column constructor.
MaxNameLen == 2
\* Longest buffer content a serialization is started on.
MaxOut == 3
\* getColumn invocations the table double serves.
MaxCalls == 3

\* ------------------------------------------------------------------ strings

NoErr == <<>>

\* One character of each class the identifier regexp tells apart: lower and
\* upper case ASCII letters, the underscore, an ASCII digit, ASCII punctuation,
\* a non-ASCII letter (e acute) and the line feed.
Alphabet == {"a", "Z", "_", "7", "-", "U+00E9", "\n"}

\* The ASCII letters and digits that occur in this module's names.
AsciiLetters == {"a", "b", "t", "u", "x", "Z"}
AsciiDigits == {"7"}

RECURSIVE StringsOfLen(_)
StringsOfLen(n) ==
    IF n = 0 THEN {<<>>}
    ELSE {Append(s, c) : s \in StringsOfLen(n - 1), c \in Alphabet}

StringsUpTo(n) == UNION {StringsOfLen(k) : k \in 0..n}

\* d.EscapeCharacter() of the dialects the caller may pass: the backquote and
\* the double quote, written BQ and DQ (neither can stand in a string here).
EscapeCharacters == {"BQ", "DQ"}

\* ------------------------------------------------------ identifier validator

\* RE2's \w: [0-9A-Za-z_], ASCII only.
WordChar(c) == c \in AsciiLetters \cup AsciiDigits \cup {"_"}

\* \w*$ from position i: the star takes every word character it can, then $
\* (no m flag) matches at the end of the text only.
RECURSIVE WordStarThenEnd(_, _)

\* Variant: $ as in Perl, which also matches before a final line feed.
WordStarThenEndPerl(name, i) ==
    IF i > Len(name) THEN TRUE
    ELSE IF WordChar(name[i]) THEN WordStarThenEnd(name, i + 1)
    ELSE i = Len(name) /\ name[i] = "\n"

WordStarThenEnd(name, i) ==
    IF i > Len(name) THEN TRUE
    ELSE IF WordChar(name[i]) THEN WordStarThenEnd(name, i + 1)
    ELSE FALSE

\* validIdentifierRegexp = "^[a-zA-Z_]\\w*$"
validIdentifierRegexp(name) ==
    /\ Len(name) >= 1
    /\ name[1] \in AsciiLetters \cup {"_"}
    /\ WordStarThenEnd(name, 2)

validIdentifierName(name) == validIdentifierRegexp(name)

\* ------------------------------------------------------------ typed columns

NoCol == [kind |-> "none"]

Nullable == TRUE
NotNullable == FALSE

Collations == {"utf8_unicode_ci", "utf8_unicode", "utf8_bin"}
Charsets == {"utf8"}

\* The zero value of baseColumn, as &bytesColumn{} and the others allocate it.
ZeroBaseColumn(kind) ==
    [kind |-> kind, name |-> <<>>, nullable |-> FALSE, table |-> <<>>]

\* What a constructor does: a panic, or the column it returns.
Panic(msg) == [panic |-> msg, col |-> NoCol]
Returned(col) == [panic |-> "", col |-> col]

\* What the six constructors share: the name is validated, then the zero value
\* is filled in.
NewBase(kind, name, nullable, msg) ==
    IF ~validIdentifierName(name) THEN Panic(msg)
    ELSE Returned([ZeroBaseColumn(kind) EXCEPT !.name = name, !.nullable = nullable])

BytesColumn(name, nullable) ==
    NewBase("bytes", name, nullable, "Invalid column name in bytes column")

StrColumn(name, charset, collation, nullable) ==
    LET r == NewBase("str", name, nullable, "Invalid column name in str column")
    IN  IF r.panic # "" THEN r
        ELSE Returned([kind |-> "str", name |-> r.col.name,
                       nullable |-> r.col.nullable, table |-> r.col.table,
                       charset |-> charset, collation |-> collation])

DateTimeColumn(name, nullable) ==
    NewBase("datetime", name, nullable, "Invalid column name in datetime column")

IntColumn(name, nullable) ==
    NewBase("int", name, nullable, "Invalid column name in int column")

DoubleColumn(name, nullable) ==
    NewBase("double", name, nullable, "Invalid column name in int column")

BoolColumn(name, nullable) ==
    NewBase("bool", name, nullable, "Invalid column name in bool column")

\* func (c *baseColumn) Name()
baseColumn_Name(c) == c.name

\* func (c *baseColumn) setTableName(table): the column afterwards, and the error.
baseColumn_setTableName(c, t) ==
    [col |-> [c EXCEPT !.table = t], err |-> NoErr]

\* func (c *baseColumn) SerializeSqlForColumnList(includeTableName, d, out):
\* the buffer afterwards, and the error.

\* Variant: the table qualifier is written whatever includeTableName and the
\* qualifier are.
baseColumn_SerializeSqlForColumnListAlways(c, includeTableName, d, buf) ==
    [out |-> buf \o <<d>> \o c.table \o <<d, ".">> \o <<d>> \o c.name \o <<d>>,
     err |-> NoErr]

baseColumn_SerializeSqlForColumnList(c, includeTableName, d, buf) ==
    LET qualifier == IF c.table # <<>> /\ includeTableName
                     THEN <<d>> \o c.table \o <<d, ".">>
                     ELSE <<>>
    IN  [out |-> buf \o qualifier \o <<d>> \o c.name \o <<d>>, err |-> NoErr]

\* func (c *baseColumn) SerializeSql(d, out)
baseColumn_SerializeSql(c, d, buf) ==
    baseColumn_SerializeSqlForColumnList(c, TRUE, d, buf)

\* ----------------------------------------------------- interfaces and table

ColIds == {1, 2}

\* A NonAliasColumn interface value: the dynamic type and the pointer.
NilColumn == [typ |-> "nil", ptr |-> 0]
IfaceOf(id) == [typ |-> cols[id].kind, ptr |-> id]

\* The names the table is asked for.
LookupNames == {<<"a">>, <<"b">>}

\* (*Table).getColumn(name), by the table's registry: the column, the error
\* and the table afterwards, which counts the lookups it served.
Table_getColumn(tbl, name) ==
    LET col == tbl.columnLookup[name]
    IN  IF col = NilColumn
        THEN [col |-> NilColumn,
              err |-> <<"no such column: ">> \o name,
              table |-> [tbl EXCEPT !.calls = @ + 1]]
        ELSE [col |-> col,
              err |-> NoErr,
              table |-> [tbl EXCEPT !.calls = @ + 1, !.hits = @ + 1]]

\* col.SerializeSql(d, out) on a NonAliasColumn interface value: every typed
\* column has baseColumn's method.
NonAliasColumn_SerializeSql(col, d, buf) ==
    baseColumn_SerializeSql(cols[col.ptr], d, buf)

NonAliasColumn_SerializeSqlForColumnList(col, includeTableName, d, buf) ==
    baseColumn_SerializeSqlForColumnList(cols[col.ptr], includeTableName, d, buf)

\* ------------------------------------------------- deferred lookup column

\* What a serialization that may resolve the deferred column leaves behind.
Effect(buf, err, c, tbl) ==
    [out |-> buf, err |-> err, deferred |-> c, table |-> tbl]

\* func (c *deferredLookupColumn) SerializeSql(d, out)

\* Variant: the cached column is not consulted, every call looks the column up.
deferredLookupColumn_SerializeSqlNoCacheCheck(c, d, buf) ==
    LET got == Table_getColumn(table, c.colName)
    IN  IF got.err # NoErr
        THEN Effect(buf, got.err, c, got.table)
        ELSE LET r == NonAliasColumn_SerializeSql(got.col, d, buf)
             IN  Effect(r.out, r.err, [c EXCEPT !.cachedColumn = got.col], got.table)

\* Variant: a failed lookup is remembered and answered from the cache.
deferredLookupColumn_SerializeSqlCachesFailure(c, d, buf) ==
    IF c.cachedColumn # NilColumn
    THEN IF c.cachedColumn.ptr = 0
         THEN Effect(buf, <<"no such column: ">> \o c.colName, c, table)
         ELSE LET r == NonAliasColumn_SerializeSql(c.cachedColumn, d, buf)
              IN  Effect(r.out, r.err, c, table)
    ELSE LET got == Table_getColumn(table, c.colName)
         IN  IF got.err # NoErr
             THEN Effect(buf, got.err,
                         [c EXCEPT !.cachedColumn = [typ |-> "missing", ptr |-> 0]],
                         got.table)
             ELSE LET r == NonAliasColumn_SerializeSql(got.col, d, buf)
                  IN  Effect(r.out, r.err, [c EXCEPT !.cachedColumn = got.col],
                             got.table)

deferredLookupColumn_SerializeSql(c, d, buf) ==
    IF c.cachedColumn # NilColumn
    THEN LET r == NonAliasColumn_SerializeSql(c.cachedColumn, d, buf)
         IN  Effect(r.out, r.err, c, table)
    ELSE LET got == Table_getColumn(table, c.colName)
         IN  IF got.err # NoErr
             THEN Effect(buf, got.err, c, got.table)
             ELSE LET r == NonAliasColumn_SerializeSql(got.col, d, buf)
                  IN  Effect(r.out, r.err, [c EXCEPT !.cachedColumn = got.col],
                             got.table)

\* func (c *deferredLookupColumn) SerializeSqlForColumnList(includeTableName, d, out)

\* Variant: includeTableName is handed on to the resolved column.
deferredLookupColumn_SerializeSqlForColumnListBranching(c, includeTableName, d, buf) ==
    LET e == deferredLookupColumn_SerializeSql(c, d, buf)
    IN  IF e.err # NoErr THEN e
        ELSE LET r == NonAliasColumn_SerializeSqlForColumnList(
                          e.deferred.cachedColumn, includeTableName, d, buf)
             IN  Effect(r.out, r.err, e.deferred, e.table)

deferredLookupColumn_SerializeSqlForColumnList(c, includeTableName, d, buf) ==
    deferredLookupColumn_SerializeSql(c, d, buf)

\* func (c *deferredLookupColumn) setTableName(table): the column afterwards,
\* and the error.
deferredLookupColumn_setTableName(c, t) ==
    [col |-> c,
     err |-> <<"lookup column '">> \o c.colName
             \o <<"' should never have setTableName called on it">>]

\* ------------------------------------------------------------ alias column

NoAlias == [kind |-> "none"]

\* The Expression values an alias is given: the nil interface, a typed column,
\* the deferred lookup column, and two expressions of the clause layer, one
\* that writes its text and one that fails after writing part of it.
NilExpression == [kind |-> "nil"]
ColumnExpression(id) == [kind |-> "column", ptr |-> id]
DeferredExpression == [kind |-> "deferred"]
LiteralExpression == [kind |-> "clause", text |-> <<"1">>, err |-> NoErr]
FailingExpression ==
    [kind |-> "clause", text |-> <<"f", "(">>, err |-> <<"clause cannot be serialized">>]

Expressions ==
    {NilExpression, ColumnExpression(1), DeferredExpression, LiteralExpression,
     FailingExpression}

\* SerializeSql of an expression of the clause layer.
Clause_SerializeSql(e, d, buf) == Effect(buf \o e.text, e.err, deferred, table)

\* c.expression.SerializeSql(d, out), by the dynamic type of the expression.
Expression_SerializeSql(e, d, buf) ==
    CASE e.kind = "column" ->
            LET r == baseColumn_SerializeSql(cols[e.ptr], d, buf)
            IN  Effect(r.out, r.err, deferred, table)
      [] e.kind = "deferred" -> deferredLookupColumn_SerializeSql(deferred, d, buf)
      [] e.kind = "clause" -> Clause_SerializeSql(e, d, buf)

\* func Alias(name, c)
\* The zero value of aliasColumn, as &aliasColumn{} allocates it.
ZeroAliasColumn ==
    [kind |-> "alias", name |-> <<>>, nullable |-> FALSE,
     expression |-> NilExpression, table |-> <<>>]

\* Variant: Alias validates as the typed-column constructors do.
AliasValidating(name, c) ==
    IF ~validIdentifierName(name) \/ c = NilExpression
    THEN Panic("Invalid alias")
    ELSE Returned([ZeroAliasColumn EXCEPT !.name = name, !.expression = c])

Alias(name, c) ==
    Returned([ZeroAliasColumn EXCEPT !.name = name, !.expression = c])

\* func (c *aliasColumn) SerializeSql(d, out)
aliasColumn_SerializeSql(c, d, buf) ==
    [out |-> buf \o <<d>> \o c.name \o <<d>>, err |-> NoErr]

\* fmt.Errorf of lines 222-226: the name between backquotes, then out.String().

\* Variant: the message stops before the generated SQL.
InvalidAliasNameErrorWithoutSql(name, buf) ==
    <<"invalid alias name ", "BQ">> \o name \o <<"BQ", ". Generated sql: ">>

InvalidAliasNameError(name, buf) ==
    <<"invalid alias name ", "BQ">> \o name \o <<"BQ", ". Generated sql: ">> \o buf

\* func (c *aliasColumn) SerializeSqlForColumnList(includeTableName, d, out)

\* Variant: the alias is closed and named before the expression's error is
\* looked at.
aliasColumn_SerializeSqlForColumnListClosingAnyway(c, includeTableName, d, buf) ==
    IF ~validIdentifierName(c.name)
    THEN Effect(buf, InvalidAliasNameError(c.name, buf), deferred, table)
    ELSE IF c.expression = NilExpression
    THEN Effect(buf, <<"cannot alias a nil expression. Generated sql: ">> \o buf,
                deferred, table)
    ELSE LET e == Expression_SerializeSql(c.expression, d, buf \o <<"(">>)
         IN  Effect(e.out \o <<")", " ", "A", "S", " ">> \o <<d>> \o c.name \o <<d>>,
                    e.err, e.deferred, e.table)

aliasColumn_SerializeSqlForColumnList(c, includeTableName, d, buf) ==
    IF ~validIdentifierName(c.name)
    THEN Effect(buf, InvalidAliasNameError(c.name, buf), deferred, table)
    ELSE IF c.expression = NilExpression
    THEN Effect(buf, <<"cannot alias a nil expression. Generated sql: ">> \o buf,
                deferred, table)
    ELSE LET opened == buf \o <<"(">>
         IN  IF c.expression = NilExpression
             THEN Effect(opened, <<"nil alias clause. Generate sql: ">> \o opened,
                         deferred, table)
             ELSE LET e == Expression_SerializeSql(c.expression, d, opened)
                  IN  IF e.err # NoErr THEN e
                      ELSE Effect(e.out \o <<")", " ", "A", "S", " ">>
                                        \o <<d>> \o c.name \o <<d>>,
                                  NoErr, e.deferred, e.table)

\* func (c *aliasColumn) setTableName(table): the column afterwards, and the error.

\* Variant: the embedded baseColumn's table is set before the error is returned.
aliasColumn_setTableNameWriting(c, t) ==
    [col |-> [c EXCEPT !.table = t],
     err |-> <<"alias column '">> \o c.name
             \o <<"' should never have setTableName called on it">>]

aliasColumn_setTableName(c, t) ==
    [col |-> c,
     err |-> <<"alias column '">> \o c.name
             \o <<"' should never have setTableName called on it">>]

\* ----------------------------------------------------------------- calls

\* A constructor's panic aborts the caller: nothing runs after it.
Running == panicked = ""

\* What the statement assembler writes around the columns.
SqlFragments == {"SELECT "}

\* The qualifiers the table layer binds columns to.
TableNames == {<<>>, <<"t">>, <<"u">>}

\* The buffer is reset, or replaced by a new one.
ResetBuffer ==
    /\ Running
    /\ out # <<>>
    /\ out' = <<>>
    /\ ret' = [op |-> "Buffer.Reset", err |-> NoErr]
    /\ UNCHANGED <<cols, alias, deferred, table, dialect, panicked, threads>>

\* The statement assembler writes SQL of its own.
WriteSql(fragment) ==
    /\ Running
    /\ Len(out) < MaxOut
    /\ out' = Append(out, fragment)
    /\ ret' = [op |-> "Buffer.WriteString", err |-> NoErr]
    /\ UNCHANGED <<cols, alias, deferred, table, dialect, panicked, threads>>

\* A typed-column constructor is called and its result kept at cols[id].
Construct(id, op, name, r) ==
    /\ Running
    /\ cols[id] = NoCol
    /\ panicked' = r.panic
    /\ cols' = IF r.panic = "" THEN [cols EXCEPT ![id] = r.col] ELSE cols
    /\ ret' = [op |-> op, name |-> name, err |-> NoErr]
    /\ UNCHANGED <<alias, deferred, table, dialect, out, threads>>

\* The names the typed-column constructors are called with.
ConstructorNames == StringsUpTo(MaxNameLen)

NewTypedColumn(id) ==
    /\ Running
    /\ cols[id] = NoCol
    /\ \E name \in ConstructorNames, nullable \in {Nullable, NotNullable} :
           \/ Construct(id, "BytesColumn", name, BytesColumn(name, nullable))
           \/ \E charset \in Charsets, collation \in Collations :
                  Construct(id, "StrColumn", name,
                            StrColumn(name, charset, collation, nullable))
           \/ Construct(id, "DateTimeColumn", name, DateTimeColumn(name, nullable))
           \/ Construct(id, "IntColumn", name, IntColumn(name, nullable))
           \/ Construct(id, "DoubleColumn", name, DoubleColumn(name, nullable))
           \/ Construct(id, "BoolColumn", name, BoolColumn(name, nullable))

TypedSetTableName(id, t) ==
    /\ Running
    /\ cols[id] # NoCol
    /\ LET r == baseColumn_setTableName(cols[id], t)
       IN  /\ cols' = [cols EXCEPT ![id] = r.col]
           /\ ret' = [op |-> "baseColumn.setTableName", tableArg |-> t, err |-> r.err]
    /\ UNCHANGED <<alias, deferred, table, dialect, out, panicked, threads>>

TypedSerializeSqlForColumnList(id, includeTableName) ==
    /\ Running
    /\ cols[id] # NoCol
    /\ Len(out) <= MaxOut
    /\ LET r == baseColumn_SerializeSqlForColumnList(
                    cols[id], includeTableName, dialect, out)
       IN  /\ out' = r.out
           /\ ret' = [op |-> "baseColumn.SerializeSqlForColumnList",
                      includeTableName |-> includeTableName, err |-> r.err]
    /\ UNCHANGED <<cols, alias, deferred, table, dialect, panicked, threads>>

TypedSerializeSql(id) ==
    /\ Running
    /\ cols[id] # NoCol
    /\ Len(out) <= MaxOut
    /\ LET r == baseColumn_SerializeSql(cols[id], dialect, out)
       IN  /\ out' = r.out
           /\ ret' = [op |-> "baseColumn.SerializeSql", err |-> r.err]
    /\ UNCHANGED <<cols, alias, deferred, table, dialect, panicked, threads>>

\* The names and expressions Alias is called with.
AliasNames == {<<>>, <<"x">>, <<"7">>}

NewAlias(name, c) ==
    /\ Running
    /\ alias = NoAlias
    /\ LET r == Alias(name, c)
       IN  /\ panicked' = r.panic
           /\ alias' = IF r.panic = "" THEN r.col ELSE alias
    /\ ret' = [op |-> "Alias", name |-> name, expression |-> c, err |-> NoErr]
    /\ UNCHANGED <<cols, deferred, table, dialect, out, threads>>

\* A serialization's effect is applied; the table double serves MaxCalls lookups.
Apply(e) ==
    /\ e.table.calls <= MaxCalls
    /\ out' = e.out
    /\ deferred' = e.deferred
    /\ table' = e.table

AliasSerializeSqlForColumnList(includeTableName) ==
    /\ Running
    /\ alias # NoAlias
    /\ Len(out) <= MaxOut
    /\ LET e == aliasColumn_SerializeSqlForColumnList(
                    alias, includeTableName, dialect, out)
       IN  /\ Apply(e)
           /\ ret' = [op |-> "aliasColumn.SerializeSqlForColumnList",
                      includeTableName |-> includeTableName, err |-> e.err]
    /\ UNCHANGED <<cols, alias, dialect, panicked, threads>>

AliasSerializeSql ==
    /\ Running
    /\ alias # NoAlias
    /\ Len(out) <= MaxOut
    /\ LET r == aliasColumn_SerializeSql(alias, dialect, out)
       IN  /\ out' = r.out
           /\ ret' = [op |-> "aliasColumn.SerializeSql", err |-> r.err]
    /\ UNCHANGED <<cols, alias, deferred, table, dialect, panicked, threads>>

AliasSetTableName(t) ==
    /\ Running
    /\ alias # NoAlias
    /\ LET r == aliasColumn_setTableName(alias, t)
       IN  /\ alias' = r.col
           /\ ret' = [op |-> "aliasColumn.setTableName", tableArg |-> t, err |-> r.err]
    /\ UNCHANGED <<cols, deferred, table, dialect, out, panicked, threads>>

DeferredSerializeSql ==
    /\ Running
    /\ Len(out) <= MaxOut
    /\ LET e == deferredLookupColumn_SerializeSql(deferred, dialect, out)
       IN  /\ Apply(e)
           /\ ret' = [op |-> "deferredLookupColumn.SerializeSql", err |-> e.err]
    /\ UNCHANGED <<cols, alias, dialect, panicked, threads>>

DeferredSerializeSqlForColumnList(includeTableName) ==
    /\ Running
    /\ Len(out) <= MaxOut
    /\ LET e == deferredLookupColumn_SerializeSqlForColumnList(
                    deferred, includeTableName, dialect, out)
       IN  /\ Apply(e)
           /\ ret' = [op |-> "deferredLookupColumn.SerializeSqlForColumnList",
                      includeTableName |-> includeTableName, err |-> e.err]
    /\ UNCHANGED <<cols, alias, dialect, panicked, threads>>

DeferredSetTableName(t) ==
    /\ Running
    /\ LET r == deferredLookupColumn_setTableName(deferred, t)
       IN  /\ deferred' = r.col
           /\ ret' = [op |-> "deferredLookupColumn.setTableName", tableArg |-> t,
                      err |-> r.err]
    /\ UNCHANGED <<cols, alias, table, dialect, out, panicked, threads>>

\* The table layer registers a column under its name, or drops a name.
Register(id) ==
    /\ Running
    /\ cols[id] # NoCol
    /\ cols[id].name \in LookupNames
    /\ table.columnLookup[cols[id].name] # IfaceOf(id)
    /\ table' = [table EXCEPT !.columnLookup[cols[id].name] = IfaceOf(id)]
    /\ ret' = [op |-> "Table.register", err |-> NoErr]
    /\ UNCHANGED <<cols, alias, deferred, dialect, out, panicked, threads>>

Unregister(name) ==
    /\ Running
    /\ table.columnLookup[name] # NilColumn
    /\ table' = [table EXCEPT !.columnLookup[name] = NilColumn]
    /\ ret' = [op |-> "Table.unregister", err |-> NoErr]
    /\ UNCHANGED <<cols, alias, deferred, dialect, out, panicked, threads>>

\* ------------------------------------------------------------- goroutines

\* Goroutines that each call SerializeSql once on the one deferred lookup
\* column, every one into a buffer of its own.  Nothing orders their reads and
\* writes of c.cachedColumn, an interface value of two words, each word
\* written and read on its own.
Threads == {1, 2}

IdleThread ==
    [pc |-> "idle", sawNil |-> FALSE, col |-> NilColumn, err |-> NoErr, buf |-> <<>>]

NoThreads == [t \in Threads |-> IdleThread]

\* line 285: if c.cachedColumn != nil, which compares the type word.
ConcCheck(t) ==
    /\ Running
    /\ threads[t].pc = "idle"
    /\ threads' = [threads EXCEPT
                      ![t].sawNil = deferred.cachedColumn.typ = "nil",
                      ![t].pc = IF deferred.cachedColumn.typ = "nil"
                                THEN "lookup" ELSE "load"]
    /\ UNCHANGED <<cols, alias, deferred, table, dialect, out, ret, panicked>>

\* line 286: c.cachedColumn is read for the call.
ConcLoad(t) ==
    /\ Running
    /\ threads[t].pc = "load"
    /\ threads' = [threads EXCEPT ![t].col = deferred.cachedColumn,
                                  ![t].pc = "serialize"]
    /\ UNCHANGED <<cols, alias, deferred, table, dialect, out, ret, panicked>>

\* lines 289-292: col, err := c.table.getColumn(c.colName)

\* Variant: cachedColumn is read again before the table is asked, and used when
\* another goroutine has stored it meanwhile.
ConcLookupRechecking(t) ==
    /\ Running
    /\ threads[t].pc = "lookup"
    /\ IF deferred.cachedColumn # NilColumn
       THEN /\ threads' = [threads EXCEPT ![t].col = deferred.cachedColumn,
                                          ![t].pc = "serialize"]
            /\ table' = table
       ELSE LET got == Table_getColumn(table, deferred.colName)
            IN  /\ table' = got.table
                /\ threads' = [threads EXCEPT
                                  ![t].col = got.col,
                                  ![t].err = got.err,
                                  ![t].pc = IF got.err # NoErr THEN "done" ELSE "store"]
    /\ UNCHANGED <<cols, alias, deferred, dialect, out, ret, panicked>>

ConcLookup(t) ==
    /\ Running
    /\ threads[t].pc = "lookup"
    /\ LET got == Table_getColumn(table, deferred.colName)
       IN  /\ table' = got.table
           /\ threads' = [threads EXCEPT
                             ![t].col = got.col,
                             ![t].err = got.err,
                             ![t].pc = IF got.err # NoErr THEN "done" ELSE "store"]
    /\ UNCHANGED <<cols, alias, deferred, dialect, out, ret, panicked>>

\* line 294: c.cachedColumn = col, one word and then the other.
ConcStoreFirst(t, word) ==
    /\ Running
    /\ threads[t].pc = "store"
    /\ deferred' = [deferred EXCEPT !.cachedColumn[word] = threads[t].col[word]]
    /\ threads' = [threads EXCEPT
                      ![t].pc = IF word = "typ" THEN "store ptr" ELSE "store typ"]
    /\ UNCHANGED <<cols, alias, table, dialect, out, ret, panicked>>

ConcStoreSecond(t) ==
    /\ Running
    /\ threads[t].pc \in {"store ptr", "store typ"}
    /\ LET word == IF threads[t].pc = "store ptr" THEN "ptr" ELSE "typ"
       IN  deferred' = [deferred EXCEPT !.cachedColumn[word] = threads[t].col[word]]
    /\ threads' = [threads EXCEPT ![t].pc = "serialize"]
    /\ UNCHANGED <<cols, alias, table, dialect, out, ret, panicked>>

\* lines 286 and 295: SerializeSql on the column the goroutine holds.  A type
\* word read without its pointer is a typed nil, and baseColumn's method
\* dereferences it.
ConcSerialize(t) ==
    /\ Running
    /\ threads[t].pc = "serialize"
    /\ IF threads[t].col.ptr = 0
       THEN /\ panicked' = "invalid memory address or nil pointer dereference"
            /\ threads' = threads
       ELSE LET r == NonAliasColumn_SerializeSql(threads[t].col, dialect,
                                                 threads[t].buf)
            IN  /\ threads' = [threads EXCEPT ![t].buf = r.out, ![t].err = r.err,
                                              ![t].pc = "done"]
                /\ panicked' = panicked
    /\ UNCHANGED <<cols, alias, deferred, table, dialect, out, ret>>

\* -------------------------------------------------------- specifications


NoTable == [columnLookup |-> [n \in LookupNames |-> NilColumn], calls |-> 0, hits |-> 0]

\* One typed column, from its construction on.
InitColumn ==
    /\ cols = [id \in ColIds |-> NoCol]
    /\ alias = NoAlias
    /\ deferred = [colName |-> <<"a">>, cachedColumn |-> NilColumn]
    /\ table = NoTable
    /\ dialect \in EscapeCharacters
    /\ out = <<>>
    /\ ret = [op |-> "init", err |-> NoErr]
    /\ panicked = ""
    /\ threads = NoThreads

NextColumn ==
    \/ NewTypedColumn(1)
    \/ \E t \in TableNames : TypedSetTableName(1, t)
    \/ \E includeTableName \in BOOLEAN :
           TypedSerializeSqlForColumnList(1, includeTableName)
    \/ TypedSerializeSql(1)
    \/ ResetBuffer
    \/ \E fragment \in SqlFragments : WriteSql(fragment)

SpecColumn == InitColumn /\ [][NextColumn]_vars

\* An alias and a deferred lookup column over a table of two typed columns
\* that go by the same name.
Init ==
    /\ cols = [id \in ColIds |->
                  IF id = 1 THEN IntColumn(<<"a">>, NotNullable).col
                  ELSE StrColumn(<<"a">>, "utf8", "utf8_bin", Nullable).col]
    /\ alias = NoAlias
    /\ deferred \in [colName : LookupNames, cachedColumn : {NilColumn}]
    /\ table = NoTable
    /\ dialect \in EscapeCharacters
    /\ out = <<>>
    /\ ret = [op |-> "init", err |-> NoErr]
    /\ panicked = ""
    /\ threads = NoThreads

Next ==
    \/ \E id \in ColIds, t \in {<<>>, <<"t">>} : TypedSetTableName(id, t)
    \/ \E name \in AliasNames, c \in Expressions : NewAlias(name, c)
    \/ \E includeTableName \in BOOLEAN :
           AliasSerializeSqlForColumnList(includeTableName)
    \/ AliasSerializeSql
    \/ \E t \in {<<>>, <<"t">>} : AliasSetTableName(t)
    \/ DeferredSerializeSql
    \/ \E includeTableName \in BOOLEAN :
           DeferredSerializeSqlForColumnList(includeTableName)
    \/ \E t \in {<<>>, <<"t">>} : DeferredSetTableName(t)
    \/ \E id \in ColIds : Register(id)
    \/ \E name \in LookupNames : Unregister(name)
    \/ ResetBuffer
    \/ \E fragment \in SqlFragments : WriteSql(fragment)

Spec == Init /\ [][Next]_vars

\* Two goroutines serialize the same deferred lookup column while the table
\* is being completed.
InitConc ==
    /\ cols = [id \in ColIds |->
                  IF id = 1 THEN IntColumn(<<"a">>, NotNullable).col
                  ELSE StrColumn(<<"a">>, "utf8", "utf8_bin", Nullable).col]
    /\ alias = NoAlias
    /\ deferred = [colName |-> <<"a">>, cachedColumn |-> NilColumn]
    /\ table = NoTable
    /\ dialect \in EscapeCharacters
    /\ out = <<>>
    /\ ret = [op |-> "init", err |-> NoErr]
    /\ panicked = ""
    /\ threads = NoThreads

NextConc ==
    \/ \E t \in Threads :
           \/ ConcCheck(t)
           \/ ConcLoad(t)
           \/ ConcLookup(t)
           \/ \E word \in {"typ", "ptr"} : ConcStoreFirst(t, word)
           \/ ConcStoreSecond(t)
           \/ ConcSerialize(t)
    \/ \E id \in ColIds : Register(id)
    \/ \E name \in LookupNames : Unregister(name)

SpecConc == InitConc /\ [][NextConc]_vars

\* ------------------------------------------------------------ properties

\* <esc>s<esc> in the dialect of the run.
Quoted(s) == <<dialect>> \o s \o <<dialect>>

\* The expression form of a typed column: its name, behind its table when it
\* has one.
QualifiedText(c) ==
    (IF c.table # <<>> THEN Quoted(c.table) \o <<".">> ELSE <<>>) \o Quoted(c.name)

\* ^[A-Za-z_][A-Za-z0-9_]*$ as the specification words it.
MatchesIdentifierPattern(name) ==
    /\ name # <<>>
    /\ Head(name) \in AsciiLetters \cup {"_"}
    /\ \A i \in 2..Len(name) : name[i] \in AsciiLetters \cup AsciiDigits \cup {"_"}

Constructors ==
    {"BytesColumn", "StrColumn", "DateTimeColumn", "IntColumn", "DoubleColumn",
     "BoolColumn"}

IsSuffix(s, t) == Len(s) <= Len(t) /\ SubSeq(t, Len(t) - Len(s) + 1, Len(t)) = s

\* C7: each typed-column constructor panics exactly when the name does not
\* match ^[A-Za-z_][A-Za-z0-9_]*$, and otherwise returns a column whose Name()
\* is the name and whose table qualifier is empty.
C7_ConstructorPanicsIffInvalidName ==
    ret.op \in Constructors =>
        /\ (panicked # "") <=> ~MatchesIdentifierPattern(ret.name)
        /\ panicked # "" => cols[1] = NoCol
        /\ panicked = "" =>
               /\ cols[1] # NoCol
               /\ baseColumn_Name(cols[1]) = ret.name
               /\ cols[1].table = <<>>

\* A constructor has panicked on a name that is valid up to a final line feed.
C7_Witness ==
    /\ ret.op \in Constructors
    /\ ret.name = <<"a", "\n">>
    /\ panicked # ""

\* C4: on a typed column setTableName always succeeds and overwrites the
\* qualifier; SerializeSqlForColumnList never fails and appends
\* <esc>T<esc>.<esc>name<esc> when includeTableName is set and the qualifier T is
\* not empty, and <esc>name<esc> otherwise; SerializeSql appends what
\* SerializeSqlForColumnList(true) appends.
C4_TypedColumnSerialization ==
    [][/\ ret'.op = "baseColumn.setTableName" =>
              /\ ret'.err = NoErr
              /\ cols'[1] = [cols[1] EXCEPT !.table = ret'.tableArg]
              /\ out' = out
       /\ ret'.op = "baseColumn.SerializeSqlForColumnList" =>
              /\ ret'.err = NoErr
              /\ cols' = cols
              /\ out' = out \o (IF ret'.includeTableName /\ cols[1].table # <<>>
                                THEN Quoted(cols[1].table) \o <<".">>
                                ELSE <<>>)
                            \o Quoted(cols[1].name)
       /\ ret'.op = "baseColumn.SerializeSql" =>
              /\ ret'.err = NoErr
              /\ cols' = cols
              /\ out' = out \o QualifiedText(cols[1])]_vars

\* A column bound to table u has been serialized for a column list without
\* its table name.
C4_Witness ==
    /\ ret.op = "baseColumn.SerializeSqlForColumnList"
    /\ ~ret.includeTableName
    /\ cols[1].table = <<"u">>
    /\ out = Quoted(cols[1].name)

DeferredSerializations ==
    {"deferredLookupColumn.SerializeSql",
     "deferredLookupColumn.SerializeSqlForColumnList"}

\* C1: the table serves at most one successful lookup, and once cachedColumn
\* is set it never changes, no step calls getColumn again, and every
\* serialization of the deferred column succeeds with the expression form of
\* that cached column, whatever the table's registry has become.
C1_ResolvedOnceAndReused ==
    [][/\ table'.hits <= 1
       /\ deferred.cachedColumn # NilColumn =>
              /\ deferred'.cachedColumn = deferred.cachedColumn
              /\ table'.calls = table.calls
              /\ ret'.op \in DeferredSerializations =>
                     /\ ret'.err = NoErr
                     /\ out' = out \o QualifiedText(cols[deferred.cachedColumn.ptr])]_vars

\* The deferred column was serialized twice into one buffer with a single
\* lookup, the second time after the table had registered another column
\* under its name.
C1_Witness ==
    /\ ret.op \in DeferredSerializations
    /\ alias = NoAlias
    /\ table.calls = 1
    /\ table.hits = 1
    /\ deferred.cachedColumn.ptr = 1
    /\ table.columnLookup[deferred.colName].ptr = 2
    /\ out = Quoted(<<"a">>) \o Quoted(<<"a">>)

\* C2: a serialization of the unresolved deferred column calls getColumn once;
\* when the lookup fails it returns the lookup's error, writes nothing and
\* leaves the column unresolved, and when it succeeds it serializes the column
\* found and caches it, whether or not earlier lookups failed.
C2_FailedLookupIsNotCached ==
    [][(ret'.op \in DeferredSerializations /\ deferred.cachedColumn = NilColumn) =>
           LET found == table.columnLookup[deferred.colName]
           IN  /\ table'.calls = table.calls + 1
               /\ found = NilColumn =>
                      /\ ret'.err = <<"no such column: ">> \o deferred.colName
                      /\ deferred' = deferred
                      /\ table'.hits = table.hits
                      /\ out' = out
               /\ found # NilColumn =>
                      /\ ret'.err = NoErr
                      /\ deferred'.cachedColumn = found
                      /\ table'.hits = table.hits + 1
                      /\ out' = out \o QualifiedText(cols[found.ptr])]_vars

\* The deferred column was resolved by its second lookup, after a first one
\* that failed.
C2_Witness ==
    /\ ret.op \in DeferredSerializations
    /\ ret.err = NoErr
    /\ alias = NoAlias
    /\ table.calls = 2
    /\ table.hits = 1
    /\ deferred.cachedColumn # NilColumn

\* C3: setTableName on the alias column or on the deferred lookup column
\* returns an error and changes no field of any column, so that each of their
\* serializations gives afterwards what it gave before.
C3_SetTableNameRejected ==
    [][ret'.op \in {"aliasColumn.setTableName", "deferredLookupColumn.setTableName"} =>
           /\ ret'.err # NoErr
           /\ alias' = alias
           /\ deferred' = deferred
           /\ cols' = cols
           /\ table' = table
           /\ out' = out
           /\ ret'.op = "aliasColumn.setTableName" =>
                  \A includeTableName \in BOOLEAN :
                      aliasColumn_SerializeSqlForColumnList(
                          alias, includeTableName, dialect, out)'
                      = aliasColumn_SerializeSqlForColumnList(
                            alias, includeTableName, dialect, out)
           /\ deferredLookupColumn_SerializeSql(deferred, dialect, out)'
              = deferredLookupColumn_SerializeSql(deferred, dialect, out)]_vars

\* setTableName has been refused by the resolved deferred column, next to an
\* alias column.
C3_Witness ==
    /\ ret.op = "deferredLookupColumn.setTableName"
    /\ ret.tableArg = <<"t">>
    /\ ret.err # NoErr
    /\ deferred.cachedColumn # NilColumn
    /\ alias # NoAlias

AliasColumnList == "aliasColumn.SerializeSqlForColumnList"

\* C5: for an alias column with a valid name and an expression that is not
\* nil, SerializeSqlForColumnList appends "(", what the expression writes and
\* ") AS <esc>name<esc>", for either value of includeTableName; when the
\* expression fails, its error is returned and nothing is appended after what
\* the expression wrote.
C5_AliasSerialization ==
    [][(/\ ret'.op = AliasColumnList
        /\ MatchesIdentifierPattern(alias.name)
        /\ alias.expression # NilExpression) =>
           LET e == Expression_SerializeSql(alias.expression, dialect, out \o <<"(">>)
           IN  /\ alias' = alias
               /\ ret'.err = e.err
               /\ e.err = NoErr =>
                      out' = e.out \o <<")", " ", "A", "S", " ">> \o Quoted(alias.name)
               /\ e.err # NoErr => out' = e.out]_vars

\* An alias of a table-qualified column has been serialized.
C5_Witness ==
    /\ ret.op = AliasColumnList
    /\ ret.err = NoErr
    /\ alias.expression = ColumnExpression(1)
    /\ out = <<"SELECT ", "(">> \o Quoted(<<"t">>) \o <<".">> \o Quoted(<<"a">>)
                 \o <<")", " ", "A", "S", " ">> \o Quoted(<<"x">>)

\* C6: Alias never panics and keeps the name and the expression it is given;
\* SerializeSqlForColumnList then returns the invalid-name error when the name
\* is not a valid identifier, nil expression or not, and the nil-expression
\* error when the name is valid and the expression is nil, writing nothing in
\* either case.
C6_AliasDefersValidation ==
    [][/\ ret'.op = "Alias" =>
              /\ panicked' = ""
              /\ alias' # NoAlias
              /\ alias'.name = ret'.name
              /\ alias'.expression = ret'.expression
       /\ (ret'.op = AliasColumnList /\ ~MatchesIdentifierPattern(alias.name)) =>
              /\ Head(ret'.err) = "invalid alias name "
              /\ SubSeq(ret'.err, 3, 2 + Len(alias.name)) = alias.name
              /\ out' = out
              /\ panicked' = ""
       /\ (/\ ret'.op = AliasColumnList
           /\ MatchesIdentifierPattern(alias.name)
           /\ alias.expression = NilExpression) =>
              /\ Head(ret'.err) = "cannot alias a nil expression. Generated sql: "
              /\ out' = out
              /\ panicked' = ""]_vars

\* An alias with the empty name and a nil expression failed to serialize on
\* its name.
C6_Witness ==
    /\ ret.op = AliasColumnList
    /\ alias.name = <<>>
    /\ alias.expression = NilExpression
    /\ Head(ret.err) = "invalid alias name "

\* The message holds the text as a run of consecutive characters.
Carries(msg, sql) ==
    \E i \in 1..(Len(msg) - Len(sql) + 1) : SubSeq(msg, i, i + Len(sql) - 1) = sql

AliasValidationErrors ==
    {"invalid alias name ", "cannot alias a nil expression. Generated sql: "}

AliasValidationFailed ==
    /\ ret.op = AliasColumnList
    /\ ret.err # NoErr
    /\ Head(ret.err) \in AliasValidationErrors

SetTableNameRefused ==
    ret.op \in {"aliasColumn.setTableName", "deferredLookupColumn.setTableName"}

\* C8 as stated: the error of an invalid alias name, of a nil aliased
\* expression and of setTableName on an alias or a deferred lookup column
\* carries the SQL generated so far in the output buffer.
C8_EveryErrorCarriesSql ==
    (AliasValidationFailed \/ SetTableNameRefused) => Carries(ret.err, out)

\* C8 as amended: the error of an invalid alias name and of a nil aliased
\* expression ends with the SQL generated so far in the output buffer; the
\* error of setTableName on an alias or a deferred lookup column holds the
\* column's name between two fixed texts, and nothing of the buffer.
C8_ValidationErrorsCarrySql ==
    /\ AliasValidationFailed => IsSuffix(out, ret.err)
    /\ ret.op = "aliasColumn.setTableName" =>
           ret.err = <<"alias column '">> \o alias.name
                     \o <<"' should never have setTableName called on it">>
    /\ ret.op = "deferredLookupColumn.setTableName" =>
           ret.err = <<"lookup column '">> \o deferred.colName
                     \o <<"' should never have setTableName called on it">>

\* An alias with an invalid name failed to serialize into a buffer that
\* already held SQL.
C8_Witness ==
    /\ AliasValidationFailed
    /\ Head(ret.err) = "invalid alias name "
    /\ out = <<"SELECT ">>

\* C9: SerializeSqlForColumnList of the deferred lookup column does, for either
\* value of includeTableName, what its SerializeSql does: the same lookup, the
\* same cached column, the same error, and the expression form of the resolved
\* column, table qualifier included.
C9_DeferredColumnListIsSerializeSql ==
    [][ret'.op = "deferredLookupColumn.SerializeSqlForColumnList" =>
           LET e == deferredLookupColumn_SerializeSql(deferred, dialect, out)
               col == IF deferred.cachedColumn # NilColumn
                      THEN deferred.cachedColumn
                      ELSE table.columnLookup[deferred.colName]
           IN  /\ out' = e.out
               /\ ret'.err = e.err
               /\ deferred' = e.deferred
               /\ table' = e.table
               /\ col # NilColumn =>
                      /\ deferred'.cachedColumn = col
                      /\ out' = out \o QualifiedText(cols[col.ptr])
               /\ col = NilColumn => deferred' = deferred /\ out' = out]_vars

\* The deferred column was resolved by a column-list serialization without
\* table names, and the column's table qualifier was written all the same.
C9_Witness ==
    /\ ret.op = "deferredLookupColumn.SerializeSqlForColumnList"
    /\ ~ret.includeTableName
    /\ alias = NoAlias
    /\ table.calls = 1
    /\ deferred.cachedColumn # NilColumn
    /\ out = Quoted(<<"t">>) \o <<".">> \o Quoted(<<"a">>)

\* The goroutines that found cachedColumn nil and are past line 289.
LookedUp == {t \in Threads : threads[t].sawNil /\ threads[t].pc # "lookup"}

\* C10: every goroutine that read cachedColumn as nil calls getColumn,
\* whatever the others have stored meanwhile: nothing in SerializeSql keeps
\* two interleaved calls from both looking the column up.
C10_EveryNilReaderLooksUp ==
    table.calls = Cardinality(LookedUp)

\* Both goroutines have returned from SerializeSql, and the one deferred
\* column was resolved twice.
C10_Witness ==
    /\ \A t \in Threads : threads[t].pc = "done" /\ threads[t].sawNil
    /\ table.calls = 2
    /\ table.hits = 2

====
